---- MODULE Spec2Model ----
(***************************************************************************)
(* LeadCaptureForm (src/unnamed/part_000): several form instances, each    *)
(* with its own React state, submitting to one shared `leads` table and    *)
(* one `send-confirmation` function.                                       *)
(*                                                                         *)
(* handleSubmit is an async function: it is cut at its three awaits.  The  *)
(* code between two awaits runs atomically (single-threaded event loop);   *)
(* the store acts on a call at the moment the call completes.              *)
(***************************************************************************)
EXTENDS Integers, Sequences, FiniteSets, TLC

VARIABLES
    formData,          \* useState, line 10
    validationErrors,  \* useState, line 11
    submitted,         \* useState, line 12
    submitError,       \* useState, line 13
    isSubmitting,      \* useState, line 14
    currentLead,       \* useState, lines 15-21
    newLead,           \* local of handleSubmit, line 68 (lives across awaits)
    pending,           \* the remote calls a form has in flight, in issue order
    leads,             \* the `leads` table, in insertion order
    run,               \* history of a form's current / just finished handleSubmit
    served             \* src/server.ts: the requests answered so far, each
                       \* with its response

vars == <<formData, validationErrors, submitted, submitError, isSubmitting,
          currentLead, newLead, pending, leads, run, served>>

\* the state of the form instances and of their table
formVars == <<formData, validationErrors, submitted, submitError, isSubmitting,
              currentLead, newLead, pending, leads, run>>

----------------------------------------------------------------------------
(* Bounds *)

\* number of form instances working against the same table
NumForms == 2

\* an error message holds at most this many of the classifier's keywords
MaxKeywords == 2

\* the standalone server answers at most this many requests
MaxRequests == 2

Forms == 1..NumForms

----------------------------------------------------------------------------
(* Values *)

\* submitError: string | null
Null == "null"

\* currentLead: {...} | null
NullLead == [null |-> TRUE]

\* leadPosition / totalLeads before the count is known, lines 71-72
Undefined == [undefined |-> TRUE]

\* a count of null in the count response, line 79
NullCount == [null |-> TRUE]

\* a JS number
Num(n) == [num |-> n]

\* JS truthiness of an optional number (undefined, null and 0 are falsy)
Truthy(v) == "num" \in DOMAIN v /\ v.num /= 0

EmptyForm == [name |-> "", email |-> "", industry |-> ""]

FieldNames == {"name", "email", "industry"}

\* what a user types or selects
Names == {"", "Ann"}
Emails == {"", "bad", "a@x.co", "b@x.co"}
Industries == {"", "technology"}

FieldValues(field) ==
    CASE field = "name" -> Names
      [] field = "email" -> Emails
      [] field = "industry" -> Industries

----------------------------------------------------------------------------
(* validateLeadForm, lib/validation.ts *)

\* the basic pattern an email is expected to satisfy
EmailPattern(e) == e \in {"a@x.co", "b@x.co"}

FieldError(field, message) == <<[field |-> field, message |-> message]>>

\* the list of field-scoped errors, in field order
validateLeadForm(fd) ==
    (IF fd.name = "" THEN FieldError("name", "required") ELSE <<>>)
    \o (IF fd.email = "" THEN FieldError("email", "required")
        ELSE IF ~EmailPattern(fd.email) THEN FieldError("email", "invalid")
        ELSE <<>>)
    \o (IF fd.industry = "" THEN FieldError("industry", "required") ELSE <<>>)

\* getFieldError, lines 27-29: the first error of the field, or undefined
getFieldError(f, field) ==
    LET hits == SelectSeq(validationErrors[f], LAMBDA e : e.field = field)
    IN  IF hits = <<>> THEN "undefined" ELSE hits[1].message

----------------------------------------------------------------------------
(* Error values and their classification, lines 129-150 *)

\* the substrings the classifier looks for with String.includes
Keywords == {"network", "fetch", "email", "database", "insert", "duplicate", "unique"}

SimulatedText == "Simulated error for testing"
NoLeadText == "No lead was inserted."

\* A message is modelled by its text (when the code compares or builds the
\* whole text) and by the keywords that occur in it as substrings.
SimulatedMessage == [text |-> SimulatedText, contains |-> {}]
NoLeadMessage == [text |-> NoLeadText, contains |-> {"insert"}]

Messages ==
    {[text |-> "other", contains |-> ks] :
        ks \in {k \in SUBSET Keywords : Cardinality(k) <= MaxKeywords}}
    \cup {SimulatedMessage, NoLeadMessage}

\* String.prototype.includes on a message
Includes(message, keyword) == keyword \in message.contains

\* what is thrown or returned as an error: an Error instance or a plain
\* object, either with a message
ErrValues == [isError : BOOLEAN, message : Messages]

NoErr == [none |-> TRUE]

\* new Error('No lead was inserted.'), line 65
NoLeadError == [isError |-> TRUE, message |-> NoLeadMessage]

MsgDefault == "Something went wrong. Please try again."
MsgNetwork == "Network error. Please check your connection and try again."
MsgEmail == "There was an issue with your email. Please check and try again."
MsgDatabase == "Unable to save your information. Please try again in a moment."
MsgSimulated == "This is a test error. The form submission was blocked for demonstration purposes."
MsgDuplicate == "This email is already registered. Please use a different email address."

\* ErrorMessageFor with the database branch testing 'database' only
ErrorMessageForNoInsert(err) ==
    IF err.isError
    THEN IF Includes(err.message, "network") \/ Includes(err.message, "fetch")
         THEN MsgNetwork
         ELSE IF Includes(err.message, "email")
         THEN MsgEmail
         ELSE IF Includes(err.message, "database")
         THEN MsgDatabase
         ELSE IF err.message.text = SimulatedText
         THEN MsgSimulated
         ELSE IF Includes(err.message, "duplicate") \/ Includes(err.message, "unique")
         THEN MsgDuplicate
         ELSE MsgDefault
    ELSE MsgDefault

\* lines 133-147
ErrorMessageFor(err) ==
    IF err.isError
    THEN IF Includes(err.message, "network") \/ Includes(err.message, "fetch")
         THEN MsgNetwork
         ELSE IF Includes(err.message, "email")
         THEN MsgEmail
         ELSE IF Includes(err.message, "database") \/ Includes(err.message, "insert")
         THEN MsgDatabase
         ELSE IF err.message.text = SimulatedText
         THEN MsgSimulated
         ELSE IF Includes(err.message, "duplicate") \/ Includes(err.message, "unique")
         THEN MsgDuplicate
         ELSE MsgDefault
    ELSE MsgDefault

----------------------------------------------------------------------------
(* The backing store and the remote function, as the form sees them *)

\* the data of an insert response: null, or an array of rows
NullData == [null |-> TRUE]
Data(rows) == [rows |-> rows]

HasEmail(table, email) == \E i \in 1..Len(table) : table[i].email = email

\* the row the store creates: a server-assigned identifier and the columns
NewRow(table, body) ==
    [id |-> Len(table) + 1, name |-> body.name, email |-> body.email,
     industry |-> body.industry]

Returned(data, error) == [thrown |-> FALSE, data |-> data, error |-> error]
Thrown(err) == [thrown |-> TRUE, err |-> err]

\* insert(...).select(): the row is stored and returned, or the call fails
\* with some error (returned as an Error or as a plain object, or thrown as
\* an Error), or it returns no row.  The store never stores a second row
\* with the same email.
InsertOutcomes(table, body) ==
    (IF HasEmail(table, body.email)
     THEN {}
     ELSE {[resp |-> Returned(Data(<<NewRow(table, body)>>), NoErr),
            table |-> Append(table, NewRow(table, body))]})
    \cup {[resp |-> Returned(NullData, e), table |-> table] : e \in ErrValues}
    \cup {[resp |-> Thrown(e), table |-> table] : e \in {x \in ErrValues : x.isError}}
    \cup {[resp |-> Returned(d, NoErr), table |-> table] : d \in {NullData, Data(<<>>)}}

\* select('*', {count: 'exact', head: true}): the exact row count, or an
\* error, or no count, or a throw
CountOutcomes(table) ==
    {[thrown |-> FALSE, count |-> Num(Len(table)), error |-> FALSE],
     [thrown |-> FALSE, count |-> NullCount, error |-> TRUE],
     [thrown |-> FALSE, count |-> NullCount, error |-> FALSE],
     [thrown |-> TRUE, count |-> NullCount, error |-> FALSE]}

\* functions.invoke('send-confirmation'): sent, or an error, or a throw
EmailOutcomes ==
    {[thrown |-> FALSE, error |-> FALSE],
     [thrown |-> FALSE, error |-> TRUE],
     [thrown |-> TRUE, error |-> FALSE]}

----------------------------------------------------------------------------
(* Remote calls and the history of a submission *)

InsertCall(fd) ==
    [op |-> "insert",
     body |-> [name |-> fd.name, email |-> fd.email, industry |-> fd.industry]]
NoBody == [none |-> TRUE]
CountCall == [op |-> "count", body |-> NoBody]
EmailCall(lead) ==
    [op |-> "email",
     body |-> [name |-> lead.name, email |-> lead.email, industry |-> lead.industry]]

Started(call) == [op |-> call.op, ev |-> "start", body |-> call.body]
Ended(call) == [op |-> call.op, ev |-> "end", body |-> call.body]

RECURSIVE StartedAll(_)
StartedAll(calls) ==
    IF calls = <<>> THEN <<>> ELSE <<Started(Head(calls))>> \o StartedAll(Tail(calls))

Remove(seq, i) == SubSeq(seq, 1, i - 1) \o SubSeq(seq, i + 1, Len(seq))

\* no handleSubmit of the form is running or has just returned
NoRun ==
    [status |-> "none", startData |-> EmptyForm, startLead |-> NullLead,
     errors |-> <<>>, log |-> <<>>, insert |-> "none", row |-> NullLead,
     err |-> NoErr, count |-> "none", email |-> "none"]

\* the history is kept until the user's next event on the form
Forget(r) == IF r.status = "returned" THEN NoRun ELSE r

InsertKind(resp) ==
    IF resp.thrown THEN "throw"
    ELSE IF resp.error /= NoErr THEN "error"
    ELSE IF resp.data = NullData \/ resp.data.rows = <<>> THEN "norow"
    ELSE "ok"

\* what the history keeps of the error an insert response carries (thrown
\* or returned): whether it is an Error instance, and whether its message
\* contains "duplicate"
InsertError(resp) ==
    LET e == IF resp.thrown THEN resp.err ELSE resp.error
    IN  IF e = NoErr THEN NoErr
        ELSE [isError |-> e.isError,
              duplicate |-> Includes(e.message, "duplicate")]

CountKind(resp) ==
    IF resp.thrown THEN "throw"
    ELSE IF resp.error THEN "error"
    ELSE IF resp.count = NullCount THEN "null"
    ELSE "ok"

EmailKind(resp) ==
    IF resp.thrown THEN "throw" ELSE IF resp.error THEN "error" ELSE "ok"

----------------------------------------------------------------------------
(* handleSubmit, lines 35-154, cut at its awaits.  Each piece is a function *)
(* of the form's state and of the response it resumes with, and gives the  *)
(* state it sets and the remote calls it starts.                           *)

\* ValidationBlocks without the early return
ValidationBlocksNever(errors) == FALSE

\* line 44: the early return on validation errors
ValidationBlocks(errors) == Len(errors) > 0

\* SubmitSync without setIsSubmitting(false) before the early return
SubmitSyncStuck(f) ==
    LET errors == validateLeadForm(formData[f])
    IN  IF ValidationBlocks(errors)
        THEN [submitError |-> Null, validationErrors |-> errors,
              isSubmitting |-> TRUE, returned |-> TRUE, issue |-> <<>>]
        ELSE [submitError |-> Null, validationErrors |-> errors,
              isSubmitting |-> TRUE, returned |-> FALSE,
              issue |-> <<InsertCall(formData[f])>>]

\* lines 36-59: up to the first await
SubmitSync(f) ==
    LET errors == validateLeadForm(formData[f])
    IN  IF ValidationBlocks(errors)
        THEN [submitError |-> Null, validationErrors |-> errors,
              isSubmitting |-> FALSE, returned |-> TRUE, issue |-> <<>>]
        ELSE [submitError |-> Null, validationErrors |-> errors,
              isSubmitting |-> TRUE, returned |-> FALSE,
              issue |-> <<InsertCall(formData[f])>>]

\* Failed without the finally block
FailedNoFinally(f, err) ==
    [returned |-> TRUE, submitError |-> ErrorMessageFor(err),
     isSubmitting |-> isSubmitting[f], newLead |-> newLead[f], issue |-> <<>>]

\* lines 129-153: catch and finally
Failed(f, err) ==
    [returned |-> TRUE, submitError |-> ErrorMessageFor(err),
     isSubmitting |-> FALSE, newLead |-> newLead[f], issue |-> <<>>]

\* AfterInsert starting the count query and the invoke together
AfterInsertNoAwait(f, resp) ==
    IF resp.thrown
    THEN Failed(f, resp.err)
    ELSE IF resp.error /= NoErr
    THEN Failed(f, resp.error)
    ELSE IF resp.data = NullData \/ resp.data.rows = <<>>
    THEN Failed(f, NoLeadError)
    ELSE [returned |-> FALSE, submitError |-> submitError[f],
          isSubmitting |-> isSubmitting[f], newLead |-> resp.data.rows[1],
          issue |-> <<CountCall, EmailCall(resp.data.rows[1])>>]

\* lines 61-77: from the insert's completion to the second await
AfterInsert(f, resp) ==
    IF resp.thrown
    THEN Failed(f, resp.err)
    ELSE IF resp.error /= NoErr
    THEN Failed(f, resp.error)
    ELSE IF resp.data = NullData \/ resp.data.rows = <<>>
    THEN Failed(f, NoLeadError)
    ELSE [returned |-> FALSE, submitError |-> submitError[f],
          isSubmitting |-> isSubmitting[f], newLead |-> resp.data.rows[1],
          issue |-> <<CountCall>>]

\* PositionOf without the check of countError and of a null count
PositionOfUnchecked(resp) == resp.count

\* lines 79-82: the count is used only when there is no error and a count
PositionOf(resp) ==
    IF ~resp.thrown /\ ~resp.error /\ resp.count /= NullCount
    THEN resp.count
    ELSE Undefined

\* AfterCount with the invoke written twice
AfterCountInvokesTwice(f, resp) ==
    [currentLead |->
        [name |-> newLead[f].name, email |-> newLead[f].email,
         industry |-> newLead[f].industry,
         position |-> PositionOf(resp), total_leads |-> PositionOf(resp)],
     issue |-> <<EmailCall(newLead[f]), EmailCall(newLead[f])>>]

\* lines 79-112: from the count's completion to the third await
AfterCount(f, resp) ==
    [currentLead |->
        [name |-> newLead[f].name, email |-> newLead[f].email,
         industry |-> newLead[f].industry,
         position |-> PositionOf(resp), total_leads |-> PositionOf(resp)],
     issue |-> <<EmailCall(newLead[f])>>]

\* AfterEmail without the reset of formData
AfterEmailKeepsForm(f, resp) ==
    [submitted |-> TRUE, formData |-> formData[f],
     submitError |-> submitError[f], isSubmitting |-> FALSE]

\* AfterEmail with a failed invoke treated as a failed submission
AfterEmailStrict(f, resp) ==
    IF resp.thrown \/ resp.error
    THEN [submitted |-> FALSE, formData |-> formData[f],
          submitError |-> MsgDefault, isSubmitting |-> FALSE]
    ELSE [submitted |-> TRUE, formData |-> EmptyForm,
          submitError |-> submitError[f], isSubmitting |-> FALSE]

\* lines 114-127 and 151-153: from the invoke's completion to the end
AfterEmail(f, resp) ==
    [submitted |-> TRUE, formData |-> EmptyForm,
     submitError |-> submitError[f], isSubmitting |-> FALSE]

----------------------------------------------------------------------------
(* What is rendered, lines 174-358 *)

\* line 174: the success view replaces the form
SuccessView(f) == submitted[f]

\* ControlsDisabled without the disabled attributes
ControlsNeverDisabled(f) == FALSE

\* lines 271, 291, 309, 336: inputs and submit button are disabled
ControlsDisabled(f) == isSubmitting[f]

\* lines 191-199: the position line, or else the generic welcome text
ShowsPosition(f) ==
    /\ currentLead[f] /= NullLead
    /\ Truthy(currentLead[f].position)
    /\ Truthy(currentLead[f].total_leads)

\* lines 243-260: the error alert with its dismiss button
ShowsErrorAlert(f) == ~SuccessView(f) /\ submitError[f] /= Null

----------------------------------------------------------------------------
(* State machine *)

\* lines 10-25: the state after construction and mount
Init ==
    /\ formData = [f \in Forms |-> EmptyForm]
    /\ validationErrors = [f \in Forms |-> <<>>]
    /\ submitted = [f \in Forms |-> FALSE]
    /\ submitError = [f \in Forms |-> Null]
    /\ isSubmitting = [f \in Forms |-> FALSE]
    /\ currentLead = [f \in Forms |-> NullLead]
    /\ newLead = [f \in Forms |-> NullLead]
    /\ pending = [f \in Forms |-> <<>>]
    /\ leads = <<>>
    /\ run = [f \in Forms |-> NoRun]
    /\ served = <<>>

\* lines 156-165, reached from the inputs' onChange (lines 270, 290, 308)
handleInputChange(f, field, value) ==
    /\ ~SuccessView(f)
    /\ ~ControlsDisabled(f)
    /\ value /= formData[f][field]
    /\ formData' = [formData EXCEPT ![f][field] = value]
    /\ validationErrors' =
          [validationErrors EXCEPT
              ![f] = SelectSeq(@, LAMBDA e : e.field /= field)]
    /\ submitError' = [submitError EXCEPT ![f] = Null]
    /\ run' = [run EXCEPT ![f] = Forget(@)]
    /\ UNCHANGED <<submitted, isSubmitting, currentLead, newLead, pending, leads>>

\* lines 31-33, reached from the alert's dismiss button (line 252)
clearSubmitError(f) ==
    /\ ShowsErrorAlert(f)
    /\ submitError' = [submitError EXCEPT ![f] = Null]
    /\ run' = [run EXCEPT ![f] = Forget(@)]
    /\ UNCHANGED <<formData, validationErrors, submitted, isSubmitting,
                   currentLead, newLead, pending, leads>>

\* handleSubmitAnother without setCurrentLead(null)
handleSubmitAnotherKeepsLead(f) ==
    /\ SuccessView(f)
    /\ submitted' = [submitted EXCEPT ![f] = FALSE]
    /\ submitError' = [submitError EXCEPT ![f] = Null]
    /\ validationErrors' = [validationErrors EXCEPT ![f] = <<>>]
    /\ run' = [run EXCEPT ![f] = Forget(@)]
    /\ UNCHANGED <<formData, isSubmitting, currentLead, newLead, pending, leads>>

\* lines 167-172, reached from the success view's button (line 212)
handleSubmitAnother(f) ==
    /\ SuccessView(f)
    /\ submitted' = [submitted EXCEPT ![f] = FALSE]
    /\ currentLead' = [currentLead EXCEPT ![f] = NullLead]
    /\ submitError' = [submitError EXCEPT ![f] = Null]
    /\ validationErrors' = [validationErrors EXCEPT ![f] = <<>>]
    /\ run' = [run EXCEPT ![f] = Forget(@)]
    /\ UNCHANGED <<formData, isSubmitting, newLead, pending, leads>>

\* lines 35-59, reached from the form's onSubmit (line 262): validation,
\* and the insert is started
handleSubmit(f) ==
    /\ ~SuccessView(f)
    /\ ~ControlsDisabled(f)
    /\ LET r == SubmitSync(f)
       IN  /\ submitError' = [submitError EXCEPT ![f] = r.submitError]
           /\ validationErrors' = [validationErrors EXCEPT ![f] = r.validationErrors]
           /\ isSubmitting' = [isSubmitting EXCEPT ![f] = r.isSubmitting]
           /\ pending' = [pending EXCEPT ![f] = @ \o r.issue]
           /\ run' = [run EXCEPT ![f] =
                        [NoRun EXCEPT
                            !.status = IF r.returned THEN "returned" ELSE "running",
                            !.startData = formData[f],
                            !.startLead = currentLead[f],
                            !.errors = r.validationErrors,
                            !.log = StartedAll(r.issue)]]
    /\ UNCHANGED <<formData, submitted, currentLead, newLead, leads>>

\* lines 51-77 and 129-153: the insert completes and handleSubmit resumes
InsertDone(f) ==
    \E i \in 1..Len(pending[f]) :
        /\ pending[f][i].op = "insert"
        /\ \E out \in InsertOutcomes(leads, pending[f][i].body) :
              LET r == AfterInsert(f, out.resp)
              IN  /\ leads' = out.table
                  /\ submitError' = [submitError EXCEPT ![f] = r.submitError]
                  /\ isSubmitting' = [isSubmitting EXCEPT ![f] = r.isSubmitting]
                  /\ newLead' = [newLead EXCEPT ![f] = r.newLead]
                  /\ pending' = [pending EXCEPT ![f] = Remove(@, i) \o r.issue]
                  /\ run' = [run EXCEPT ![f] =
                               [@ EXCEPT
                                   !.status = IF r.returned THEN "returned" ELSE @,
                                   !.insert = InsertKind(out.resp),
                                   !.row = IF InsertKind(out.resp) = "ok"
                                           THEN out.resp.data.rows[1] ELSE @,
                                   !.err = InsertError(out.resp),
                                   !.log = (@ \o <<Ended(pending[f][i])>>)
                                           \o StartedAll(r.issue)]]
        /\ UNCHANGED <<formData, validationErrors, submitted, currentLead>>

\* lines 75-112: the count query completes and handleSubmit resumes
CountDone(f) ==
    \E i \in 1..Len(pending[f]) :
        /\ pending[f][i].op = "count"
        /\ \E resp \in CountOutcomes(leads) :
              LET r == AfterCount(f, resp)
              IN  /\ currentLead' = [currentLead EXCEPT ![f] = r.currentLead]
                  /\ pending' = [pending EXCEPT ![f] = Remove(@, i) \o r.issue]
                  /\ run' = [run EXCEPT ![f] =
                               [@ EXCEPT
                                   !.count = CountKind(resp),
                                   !.log = (@ \o <<Ended(pending[f][i])>>)
                                           \o StartedAll(r.issue)]]
        /\ UNCHANGED <<formData, validationErrors, submitted, submitError,
                       isSubmitting, newLead, leads>>

\* lines 99-127 and 151-153: the invoke completes and handleSubmit ends
EmailDone(f) ==
    \E i \in 1..Len(pending[f]) :
        /\ pending[f][i].op = "email"
        /\ \E resp \in EmailOutcomes :
              LET r == AfterEmail(f, resp)
              IN  /\ submitted' = [submitted EXCEPT ![f] = r.submitted]
                  /\ formData' = [formData EXCEPT ![f] = r.formData]
                  /\ submitError' = [submitError EXCEPT ![f] = r.submitError]
                  /\ isSubmitting' = [isSubmitting EXCEPT ![f] = r.isSubmitting]
                  /\ pending' = [pending EXCEPT ![f] = Remove(@, i)]
                  /\ run' = [run EXCEPT ![f] =
                               [@ EXCEPT
                                   !.status = "returned",
                                   !.email = EmailKind(resp),
                                   !.log = @ \o <<Ended(pending[f][i])>>]]
        /\ UNCHANGED <<validationErrors, currentLead, newLead, leads>>

\* the standalone server of src/server.ts is a separate program
ServerIdle == UNCHANGED served

Next ==
    \E f \in Forms :
        \/ \E field \in FieldNames :
              \E value \in FieldValues(field) :
                  handleInputChange(f, field, value) /\ ServerIdle
        \/ clearSubmitError(f) /\ ServerIdle
        \/ handleSubmitAnother(f) /\ ServerIdle
        \/ handleSubmit(f) /\ ServerIdle
        \/ InsertDone(f) /\ ServerIdle
        \/ CountDone(f) /\ ServerIdle
        \/ EmailDone(f) /\ ServerIdle

Spec == Init /\ [][Next]_vars

----------------------------------------------------------------------------
(* One form instance, with the other clients of the table reduced to the   *)
(* rows they insert                                                        *)

TheForm == CHOOSE f \in Forms : \A g \in Forms : f <= g

ValidBodies ==
    {[name |-> n, email |-> e, industry |-> i] :
        n \in Names \ {""}, e \in {x \in Emails : EmailPattern(x)},
        i \in Industries \ {""}}

\* lines 51-59 run by another instance: a row appears in the table
OtherClientInsert ==
    /\ \E body \in ValidBodies :
          /\ ~HasEmail(leads, body.email)
          /\ leads' = Append(leads, NewRow(leads, body))
    /\ UNCHANGED <<formData, validationErrors, submitted, submitError,
                   isSubmitting, currentLead, newLead, pending, run>>

NextOneForm ==
    \/ \E field \in FieldNames :
          \E value \in FieldValues(field) :
              handleInputChange(TheForm, field, value) /\ ServerIdle
    \/ clearSubmitError(TheForm) /\ ServerIdle
    \/ handleSubmitAnother(TheForm) /\ ServerIdle
    \/ handleSubmit(TheForm) /\ ServerIdle
    \/ InsertDone(TheForm) /\ ServerIdle
    \/ CountDone(TheForm) /\ ServerIdle
    \/ EmailDone(TheForm) /\ ServerIdle
    \/ OtherClientInsert /\ ServerIdle

SpecOneForm == Init /\ [][NextOneForm]_vars

\* every remote call of the form eventually returns or throws
RemoteCallsComplete ==
    /\ WF_vars(InsertDone(TheForm) /\ ServerIdle)
    /\ WF_vars(CountDone(TheForm) /\ ServerIdle)
    /\ WF_vars(EmailDone(TheForm) /\ ServerIdle)

SpecOneFormFair == SpecOneForm /\ RemoteCallsComplete

----------------------------------------------------------------------------
(* The standalone HTTP server, src/server.ts *)

\* what a request can differ in
Methods == {"GET", "POST", "OPTIONS"}
Paths == {"/", "/leads"}
Authorizations == {"", "Bearer key"}
Bodies == {"", "{\"name\":\"Ann\"}"}

Requests ==
    [method : Methods, path : Paths, authorization : Authorizations, body : Bodies]

\* JSON.stringify of an object with the one string property msg, line 9
JsonStringify(obj) == "{\"msg\":\"" \o obj.msg \o "\"}"

\* Response without the fixed path, as a router would answer
HandlerByPath(req) ==
    IF req.path = "/"
    THEN [status |-> 200,
          headers |-> ("Content-Type" :> "application/json"),
          body |-> JsonStringify([msg |-> "Hello from Deno!"])]
    ELSE [status |-> 404,
          headers |-> ("Content-Type" :> "application/json"),
          body |-> JsonStringify([msg |-> "Not found"])]

\* lines 8-11: the handler given to serve; the status of a Response built
\* without one is 200
Handler(req) ==
    [status |-> 200,
     headers |-> ("Content-Type" :> "application/json"),
     body |-> JsonStringify([msg |-> "Hello from Deno!"])]

\* lines 7-13: a request arrives on the listener and is answered
ServeRequest(req) ==
    /\ Len(served) < MaxRequests
    /\ served' = Append(served, [req |-> req, resp |-> Handler(req)])
    /\ UNCHANGED formVars

NextServer == \E req \in Requests : ServeRequest(req)

SpecServer == Init /\ [][NextServer]_vars

----------------------------------------------------------------------------
(* Reading a submission's history *)

HasReturned(f) == run[f].status = "returned"

\* the events of the log that start a call of the given kind
StartsOf(log, op) == SelectSeq(log, LAMBDA e : e.op = op /\ e.ev = "start")

Shape(log) == [i \in 1..Len(log) |-> <<log[i].op, log[i].ev>>]

\* the one order in which a submission's calls start and end
StrictOrder ==
    << <<"insert", "start">>, <<"insert", "end">>, <<"count", "start">>,
       <<"count", "end">>, <<"email", "start">>, <<"email", "end">> >>

IsPrefix(s, t) == Len(s) <= Len(t) /\ s = SubSeq(t, 1, Len(s))

LeadColumns(row) ==
    [name |-> row.name, email |-> row.email, industry |-> row.industry]

InsertFailed(f) == HasReturned(f) /\ run[f].insert \in {"error", "throw"}

InsertSucceeded(f) == HasReturned(f) /\ run[f].insert = "ok"

----------------------------------------------------------------------------
(* Claims *)

\* C1: when validateLeadForm returns errors, handleSubmit issues no remote
\* call, stores the field-scoped errors in validationErrors, leaves
\* submitted false and has isSubmitting back to false when it returns.
C1_ValidationBlocksSubmit ==
    \A f \in Forms :
        run[f].errors /= <<>> =>
            /\ HasReturned(f)
            /\ run[f].log = <<>>
            /\ pending[f] = <<>>
            /\ validationErrors[f] = validateLeadForm(formData[f])
            /\ validationErrors[f] /= <<>>
            /\ \A i \in 1..Len(validationErrors[f]) :
                  validationErrors[f][i].field \in FieldNames
            /\ ~submitted[f]
            /\ ~isSubmitting[f]

C1_Witness ==
    \E f \in Forms :
        /\ HasReturned(f)
        /\ formData[f].name = "" /\ formData[f].email = "a@x.co"
        /\ getFieldError(f, "name") = "required"
        /\ getFieldError(f, "email") = "undefined"
        /\ Len(leads) = 1

\* C2: a submission that passes validation and whose insert returns a row
\* ends in the success view, with formData reset, currentLead holding the
\* returned row's name, email and industry, submitError null and
\* isSubmitting false, whatever the count query and the invoke did.
C2_SuccessAfterInsert ==
    \A f \in Forms :
        InsertSucceeded(f) =>
            /\ submitted[f]
            /\ SuccessView(f)
            /\ formData[f] = EmptyForm
            /\ currentLead[f] /= NullLead
            /\ LeadColumns(currentLead[f]) = LeadColumns(run[f].row)
            /\ LeadColumns(run[f].row) = run[f].startData
            /\ submitError[f] = Null
            /\ ~isSubmitting[f]
            /\ pending[f] = <<>>

C2_Witness ==
    \E f \in Forms :
        /\ InsertSucceeded(f)
        /\ run[f].count = "throw"
        /\ run[f].email = "error"
        /\ submitted[f]
        /\ currentLead[f].email = "b@x.co"

\* C3: an insert failure whose message contains "duplicate" always shows
\* the duplicate-specific message, whatever else the message contains and
\* whether or not the error is an Error instance.
C3_DuplicateMessage ==
    \A f \in Forms :
        (InsertFailed(f) /\ run[f].err.duplicate) => submitError[f] = MsgDuplicate

\* C4: when the insert succeeds and the count query fails (error, null
\* count or throw), the success view is reached with submitError null,
\* position and total_leads undefined, the generic welcome text shown, and
\* send-confirmation still invoked.
C4_CountFailureOmitsPosition ==
    \A f \in Forms :
        (InsertSucceeded(f) /\ run[f].count \in {"error", "null", "throw"}) =>
            /\ submitted[f]
            /\ submitError[f] = Null
            /\ currentLead[f].position = Undefined
            /\ currentLead[f].total_leads = Undefined
            /\ ~ShowsPosition(f)
            /\ Len(StartsOf(run[f].log, "email")) = 1

C4_Witness ==
    \E f \in Forms :
        /\ InsertSucceeded(f)
        /\ run[f].count = "null"
        /\ run[f].email = "ok"
        /\ submitted[f]
        /\ ~ShowsPosition(f)

\* C5: when the insert succeeds and the send-confirmation invoke fails
\* (error or throw), the step that ends the submission sets submitted,
\* leaves submitError null, clears formData and leaves currentLead (with any
\* position from the count query) as it was.
C5_EmailFailureNonFatal ==
    [][\A f \in Forms :
          (/\ run[f].status = "running"
           /\ run'[f].status = "returned"
           /\ run'[f].insert = "ok"
           /\ run'[f].email \in {"error", "throw"}) =>
              /\ submitted'[f]
              /\ submitError'[f] = Null
              /\ formData'[f] = EmptyForm
              /\ ~isSubmitting'[f]
              /\ currentLead'[f] = currentLead[f]
              /\ LeadColumns(currentLead'[f]) = LeadColumns(run'[f].row)
              /\ (run'[f].count = "ok" <=> "num" \in DOMAIN currentLead'[f].position)
    ]_vars

C5_Witness ==
    \E f \in Forms :
        /\ InsertSucceeded(f)
        /\ run[f].count = "ok"
        /\ run[f].email = "throw"
        /\ submitted[f]
        /\ ShowsPosition(f)
        /\ formData[f] = EmptyForm

\* C6: within one submission the remote calls are strictly ordered and never
\* overlap: insert, then count after the insert has completed, then the
\* invoke after the count has completed; never two calls in flight at once.
C6_CallsSequential ==
    \A f \in Forms :
        /\ Len(pending[f]) <= 1
        /\ IsPrefix(Shape(run[f].log), StrictOrder)
        /\ (pending[f] /= <<>> =>
              /\ run[f].log /= <<>>
              /\ run[f].log[Len(run[f].log)] = Started(pending[f][1]))

C6_Witness ==
    \E f \in Forms : HasReturned(f) /\ Shape(run[f].log) = StrictOrder

\* C7: when the insert fails (returned error or throw) the flow is aborted:
\* no count query and no invoke, submitted stays false, currentLead and
\* formData are unchanged, submitError is a non-null message, isSubmitting
\* is false again; and no confirmation is ever requested for an email that
\* is not in the table.
C7_InsertFailureAborts ==
    \A f \in Forms :
        /\ InsertFailed(f) =>
              /\ Shape(run[f].log) = SubSeq(StrictOrder, 1, 2)
              /\ pending[f] = <<>>
              /\ ~submitted[f]
              /\ currentLead[f] = run[f].startLead
              /\ formData[f] = run[f].startData
              /\ submitError[f] /= Null
              /\ ShowsErrorAlert(f)
              /\ ~isSubmitting[f]
        /\ \A i \in 1..Len(run[f].log) :
              run[f].log[i].op = "email" => HasEmail(leads, run[f].log[i].body.email)

C7_Witness ==
    \E f \in Forms :
        /\ InsertFailed(f)
        /\ run[f].insert = "throw"
        /\ submitError[f] = MsgNetwork
        /\ formData[f].email = "a@x.co"
        /\ ~HasEmail(leads, "a@x.co")

\* C8: a submission issues at most one insert, one count query and one
\* invoke, and retries nothing; when its insert succeeds, send-confirmation
\* is invoked exactly once, with the inserted row's name, email, industry.
C8_AtMostOnce ==
    \A f \in Forms :
        /\ \A op \in {"insert", "count", "email"} : Len(StartsOf(run[f].log, op)) <= 1
        /\ InsertSucceeded(f) =>
              /\ Len(StartsOf(run[f].log, "email")) = 1
              /\ StartsOf(run[f].log, "email")[1].body = LeadColumns(run[f].row)
              /\ \E i \in 1..Len(leads) : leads[i] = run[f].row
        /\ InsertFailed(f) => Len(run[f].log) = 2

C8_Witness ==
    \E f \in Forms :
        /\ InsertSucceeded(f)
        /\ run[f].email = "ok"
        /\ StartsOf(run[f].log, "email")[1].body.email = "b@x.co"
        /\ Len(leads) = 2

\* C9: when the count query succeeds, the position shown is the lead's rank
\* in insertion order in the table and equals total_leads, and no two
\* successfully submitted leads are shown the same position, for any
\* interleaving of submissions from several form instances.
C9_PositionIsRank ==
    /\ \A f \in Forms :
          (InsertSucceeded(f) /\ run[f].count = "ok") =>
              /\ currentLead[f].position = Num(run[f].row.id)
              /\ currentLead[f].total_leads = currentLead[f].position
    /\ \A f, g \in Forms :
          (/\ f /= g
           /\ InsertSucceeded(f) /\ run[f].count = "ok"
           /\ InsertSucceeded(g) /\ run[g].count = "ok") =>
              currentLead[f].position /= currentLead[g].position

\* C10: a form never has two submissions in flight: while a submission
\* runs, isSubmitting is true, neither a second submit nor an edit of
\* formData is possible, and at most one insert has been issued.
C10_SingleSubmission ==
    \A f \in Forms :
        /\ run[f].status = "running" =>
              /\ isSubmitting[f]
              /\ formData[f] = run[f].startData
              /\ Len(StartsOf(run[f].log, "insert")) = 1
              /\ Len(pending[f]) = 1
        /\ pending[f] /= <<>> => run[f].status = "running"
        /\ isSubmitting[f] <=> run[f].status = "running"
        /\ isSubmitting[f] => ~SuccessView(f)

C10_Witness ==
    \E f \in Forms :
        /\ run[f].status = "running"
        /\ pending[f][1].op = "email"
        /\ isSubmitting[f]
        /\ formData[f] = run[f].startData
        /\ formData[f] /= EmptyForm

\* C11: the standalone server answers every request with the same response,
\* body {"msg":"Hello from Deno!"} with Content-Type application/json,
\* whatever the request's method, path, headers and body and whatever
\* requests came before.
C11_FixedResponse ==
    \A i \in 1..Len(served) :
        /\ served[i].resp.body = "{\"msg\":\"Hello from Deno!\"}"
        /\ served[i].resp.headers["Content-Type"] = "application/json"
        /\ \A j \in 1..Len(served) : served[j].resp = served[i].resp

C11_Witness ==
    /\ Len(served) = MaxRequests
    /\ served[1].req =
          [method |-> "POST", path |-> "/leads", authorization |-> "Bearer key",
           body |-> "{\"name\":\"Ann\"}"]
    /\ served[Len(served)].req =
          [method |-> "GET", path |-> "/", authorization |-> "", body |-> ""]
    /\ served[Len(served)].resp.status = 200

\* the three ways a submission can end
ShowsValidationErrors(f) ==
    validationErrors[f] /= <<>> /\ ~submitted[f] /\ submitError[f] = Null
ShowsSubmitError(f) == submitError[f] /= Null /\ ~submitted[f]
ShowsSuccess(f) == submitted[f] /\ submitError[f] = Null

ExactlyOne(a, b, c) == (a \/ b \/ c) /\ ~(a /\ b) /\ ~(a /\ c) /\ ~(b /\ c)

\* C12: provided every remote call eventually returns or throws, every
\* submission eventually finishes, with isSubmitting false and in exactly one
\* of three outcomes (validation errors, submit error, success view); and
\* isSubmitting goes back to false only in a step in which a remote call
\* completes or in the submit step itself, so it stays true as long as the
\* call in flight does not complete.
C12_SubmissionFinishes ==
    /\ \A f \in Forms :
          (run[f].status = "running") ~> (HasReturned(f) /\ ~isSubmitting[f])
    /\ [](\A f \in Forms :
            HasReturned(f) =>
                /\ ~isSubmitting[f]
                /\ pending[f] = <<>>
                /\ ExactlyOne(ShowsValidationErrors(f), ShowsSubmitError(f),
                              ShowsSuccess(f))
                /\ (ShowsValidationErrors(f) <=> run[f].errors /= <<>>)
                /\ (ShowsSuccess(f) <=> run[f].insert = "ok"))
    /\ [][\A f \in Forms :
            (isSubmitting[f] /\ ~isSubmitting'[f]) =>
                /\ pending[f] /= <<>>
                /\ pending'[f] = <<>>
                /\ HasReturned(f)'
       ]_vars

C12_Witness ==
    \E f \in Forms :
        /\ HasReturned(f)
        /\ run[f].errors = <<>>
        /\ run[f].insert = "error"
        /\ ShowsSubmitError(f)
        /\ submitError[f] = MsgDuplicate
        /\ ~isSubmitting[f]

\* C13: an insert that reports no error but returns no row (data null or an
\* empty array) is a failed submission: neither the count query nor the
\* invoke is issued, submitted stays false, and since the thrown message
\* 'No lead was inserted.' contains "insert" the error shown is 'Unable to
\* save your information. Please try again in a moment.'.
C13_NoRowIsFailure ==
    \A f \in Forms :
        (HasReturned(f) /\ run[f].insert = "norow") =>
            /\ Shape(run[f].log) = SubSeq(StrictOrder, 1, 2)
            /\ pending[f] = <<>>
            /\ ~submitted[f]
            /\ submitError[f] = MsgDatabase
            /\ currentLead[f] = NullLead
            /\ ~isSubmitting[f]

C13_Witness ==
    \E f \in Forms :
        /\ HasReturned(f)
        /\ run[f].insert = "norow"
        /\ run[f].err = NoErr
        /\ submitError[f] = MsgDatabase
        /\ formData[f].email = "b@x.co"
        /\ ~HasEmail(leads, "b@x.co")

\* the state of a form after construction
IsInitialForm(f) ==
    /\ ~submitted[f]
    /\ currentLead[f] = NullLead
    /\ submitError[f] = Null
    /\ validationErrors[f] = <<>>
    /\ formData[f] = EmptyForm
    /\ ~isSubmitting[f]

\* C14: whenever the success view is shown, currentLead is non-null,
\* submitError is null, validationErrors and formData are empty, and position
\* and total_leads are both undefined or equal; the step that leaves the
\* success view (handleSubmitAnother) puts the form in exactly its initial
\* state and issues no remote call.
C14_SuccessViewAndReset ==
    /\ [](\A f \in Forms :
            submitted[f] =>
                /\ currentLead[f] /= NullLead
                /\ submitError[f] = Null
                /\ validationErrors[f] = <<>>
                /\ formData[f] = EmptyForm
                /\ ~isSubmitting[f]
                /\ currentLead[f].position = currentLead[f].total_leads
                /\ \/ currentLead[f].position = Undefined
                   \/ "num" \in DOMAIN currentLead[f].position)
    /\ [][\A f \in Forms :
            (submitted[f] /\ ~submitted'[f]) =>
                /\ IsInitialForm(f)'
                /\ pending[f] = <<>>
                /\ pending'[f] = <<>>
                /\ leads' = leads
       ]_vars

C14_Witness ==
    \E f \in Forms :
        /\ IsInitialForm(f)
        /\ newLead[f] /= NullLead
        /\ HasEmail(leads, newLead[f].email)
        /\ run[f].status = "none"
        /\ pending[f] = <<>>

====
